---- MODULE Spec2Model ----
(***************************************************************************)
(* Model of the buffering/flush engine of just-metrics (src/src/index.ts,  *)
(* createMetrics, lines 220-325): the closure state `buffer` and           *)
(* `flushTimer`, the host's timer table and clock, the fetch calls made    *)
(* and the promises returned by flush().                                   *)
(***************************************************************************)
EXTENDS Integers, Sequences, FiniteSets, TLC

\* ---- program constants -------------------------------------------------
BUFFER_SIZE_LIMIT == 100
FLUSH_INTERVAL_MS == 5000

\* ---- bounds of the model -----------------------------------------------
\* number of steps taken by the application and the clock: runs of recording
\* calls, flush() calls and advances of the clock
MaxSteps == 4
\* a run of recording calls is one call or, for count(), a loop of BurstLen calls
BurstLen == 99
\* the clock advances in steps of at most TickMs
TickMs == 2500

NoTimer == 0

VARIABLES
    buffer,      \* closure variable `buffer`: sequence of metrics
    flushTimer,  \* closure variable `flushTimer`: NoTimer (null) or a handle
    armed,       \* host timer table: set of [id, due] of armed timeouts
    nextTimer,   \* host: next timeout handle (handles are truthy, >= 1)
    now,         \* host clock, in milliseconds
    sent,        \* fetch calls made so far, in the order they were initiated
    calls,       \* flush() invocations so far, with the promise each returned
    recorded,    \* number of recording calls made so far
    steps,       \* number of steps of the application and the clock so far
    returns,     \* recording calls of the last step: <<length after push, length at return>>
    call,        \* the arguments of the recording call whose record is built (SpecEncode)
    payload,     \* the record built for `call`, NoPayload before the call
    insts        \* the closures of the createMetrics calls of SpecMulti

vars == <<buffer, flushTimer, armed, nextTimer, now, sent, calls, recorded, steps, returns,
          call, payload, insts>>
\* what the operations of the one scheduler of Spec leave alone
aside == <<call, payload, insts>>

\* ---- host timers ---------------------------------------------------------
\* setTimeout(cb, ms): arms a new timeout due ms from now; cb is the callback
\* of the closure s.self
setTimeout(s, t, ms) ==
    [s EXCEPT !.armed = @ \cup {[id |-> s.nextTimer, due |-> t + ms, cb |-> s.self]},
              !.nextTimer = @ + 1]

\* clearTimeout(handle): disarms the timeout, if it is still armed
clearTimeout(s, handle) ==
    [s EXCEPT !.armed = {tm \in @ : tm.id # handle}]

\* ---- the address (DSN) ---------------------------------------------------
\* What new URL(dsn) yields for the DSN of the tests: the pathname is the
\* sequence of its characters, the digits taken as one
VALID_DSN ==
    [valid |-> TRUE, username |-> "abc123", host |-> "o123456.ingest.sentry.io",
     pathname |-> <<"/", "4567890">>]

\* pathname.slice(1)
slice1(str) == IF str = <<>> THEN <<>> ELSE Tail(str)

\* createMetrics(), line 222: the template string, piece by piece
envelopeUrlOf(host, projectId) == <<"https://", host, "/api/">> \o projectId \o <<"/envelope/">>

\* ---- the envelope ---------------------------------------------------------
\* JSON.stringify(obj): one piece of text; it holds no raw newline
stringify(obj) == [json |-> obj]
Newline == [char |-> "\n"]

\* buildEnvelope() taking the count from the buffer, which flush() has emptied
buildEnvelope_countsBuffer(dsn, metrics, t) ==
    <<stringify([dsn |-> dsn, sent_at |-> t]), Newline,
      stringify([type |-> "trace_metric", item_count |-> 0,
                 content_type |-> "application/vnd.sentry.items.trace-metric+json"]), Newline,
      stringify([items |-> metrics])>>

\* buildEnvelope(metrics), called at time t: header, item header and item
\* payload joined by newlines
buildEnvelope(dsn, metrics, t) ==
    LET header == stringify([dsn |-> dsn, sent_at |-> t])
        itemHeader == stringify([type |-> "trace_metric", item_count |-> Len(metrics),
                                 content_type |-> "application/vnd.sentry.items.trace-metric+json"])
        itemPayload == stringify([items |-> metrics])
    IN  <<header, Newline, itemHeader, Newline, itemPayload>>

\* ---- the record of a metric -------------------------------------------------
\* An optional argument or field: absent (undefined) or present with a value
Absent == [some |-> FALSE]
Some(v) == [some |-> TRUE, v |-> v]

\* numbers: a finite number with its whole part and its thousandths, NaN, Infinity
Finite(whole, thousandths) == [kind |-> "finite", whole |-> whole, frac |-> thousandths]
NaN == [kind |-> "nan", whole |-> 0, frac |-> 0]
Infinity == [kind |-> "inf", whole |-> 0, frac |-> 0]

\* attribute values with their JavaScript type
Str(v) == [t |-> "string", str |-> v, num |-> NaN, bool |-> FALSE]
Num(v) == [t |-> "number", str |-> "", num |-> v, bool |-> FALSE]
Bool(v) == [t |-> "boolean", str |-> "", num |-> NaN, bool |-> v]

typeof(value) == value.t

\* Number.isInteger that takes every number for an integer
isInteger_always(value) == TRUE

\* Number.isInteger(value)
isInteger(value) == value.num.kind = "finite" /\ value.num.frac = 0

\* formatAttributeValue(value)
formatAttributeValue(value) ==
    CASE typeof(value) = "string" -> [value |-> value, type |-> "string"]
      [] typeof(value) = "boolean" -> [value |-> value, type |-> "boolean"]
      [] typeof(value) = "number" ->
            IF isInteger(value) THEN [value |-> value, type |-> "integer"]
            ELSE [value |-> value, type |-> "double"]
      [] OTHER -> [value |-> Str("?"), type |-> "string"]

\* formatAttributes(attributes): undefined for undefined, else the attributes
\* formatted key by key (an object, also an empty one, is truthy)
formatAttributes(attributes) ==
    IF ~attributes.some THEN Absent
    ELSE Some([k \in DOMAIN attributes.v |-> formatAttributeValue(attributes.v[k])])

\* options?.unit and options?.attributes
unitOf(options) == IF options.some THEN options.v.unit ELSE Absent
attributesOf(options) == IF options.some THEN options.v.attributes ELSE Absent

\* truthiness of an optional string: undefined and "" are falsy
truthy(str) == str.some /\ str.v # ""

\* Date.now() / 1000 at t milliseconds: seconds and thousandths
epochSeconds(t) == Finite(t \div 1000, t % 1000)

\* createMetric(), lines 240-255: the record of a call made at time t with
\* trace id traceId; unit and attributes are fields only when set
metricPayload(name, value, type, options, t, traceId) ==
    LET metric == [timestamp |-> epochSeconds(t), trace_id |-> traceId,
                   name |-> name, value |-> value, type |-> type]
        withUnit == IF truthy(unitOf(options))
                    THEN [unit |-> unitOf(options).v] @@ metric
                    ELSE metric
        formattedAttributes == formatAttributes(attributesOf(options))
    IN  IF formattedAttributes.some
        THEN [attributes |-> formattedAttributes.v] @@ withUnit
        ELSE withUnit

\* the kind each recording operation passes to createMetric
typeOfApi(api) ==
    CASE api = "count" -> "counter"
      [] api = "gauge" -> "gauge"
      [] api = "distribution" -> "distribution"

\* count(name, value = 1, options): the default of an omitted value
valueOrDefault(api, value) ==
    IF value.some THEN value.v ELSE Finite(1, 0)

NoCall == [api |-> "none"]
NoPayload == [name |-> "none"]
Instances == {1, 2}
NoInstance == [status |-> "none"]

\* ---- the closure of createMetrics ---------------------------------------
\* the state the closure's functions work on
Closure ==
    [buffer |-> buffer, flushTimer |-> flushTimer, armed |-> armed,
     nextTimer |-> nextTimer, sent |-> sent, calls |-> calls,
     recorded |-> recorded, returns |-> {},
     dsn |-> VALID_DSN,
     envelopeUrl |-> envelopeUrlOf(VALID_DSN.host, slice1(VALID_DSN.pathname)),
     self |-> 1]

\* scheduleFlush() arming a deadline at every call
scheduleFlush_always(s, t) ==
    [setTimeout(s, t, FLUSH_INTERVAL_MS) EXCEPT !.flushTimer = s.nextTimer]

\* scheduleFlush() with half the interval
scheduleFlush_early(s, t) ==
    IF s.flushTimer # NoTimer THEN s
    ELSE [setTimeout(s, t, FLUSH_INTERVAL_MS \div 2) EXCEPT !.flushTimer = s.nextTimer]

\* scheduleFlush() restarting a pending deadline (a debounce)
scheduleFlush_restart(s, t) ==
    [setTimeout(clearTimeout(s, s.flushTimer), t, FLUSH_INTERVAL_MS)
        EXCEPT !.flushTimer = s.nextTimer]

\* scheduleFlush(): arm the deadline unless one is pending
scheduleFlush(s, t) ==
    IF s.flushTimer # NoTimer THEN s
    ELSE [setTimeout(s, t, FLUSH_INTERVAL_MS) EXCEPT !.flushTimer = s.nextTimer]

\* flush() that leaves the pending deadline alone
cancelDeadline_none(s) == s

\* flush() that clears the timeout and keeps the handle
cancelDeadline_keepsHandle(s) ==
    IF s.flushTimer # NoTimer THEN clearTimeout(s, s.flushTimer) ELSE s

\* flush(), lines 267-270: cancel and forget the pending deadline
cancelDeadline(s) ==
    IF s.flushTimer # NoTimer
    THEN [clearTimeout(s, s.flushTimer) EXCEPT !.flushTimer = NoTimer]
    ELSE s

\* flush() without the check for an empty buffer
nothingToSend_never(buf) == FALSE

\* flush(), line 272: nothing to send
nothingToSend(buf) == Len(buf) = 0

\* flush() that does not clear the buffer
bufferAfterSnapshot_kept(buf) == buf

\* flush(), line 275: the buffer after the snapshot was taken
bufferAfterSnapshot(buf) == <<>>

\* flush() without the try/catch around the awaited fetch
settle_uncaught(outcome) ==
    CASE outcome = "pending" -> "pending"
      [] outcome \in {"ok", "notok"} -> "fulfilled"
      [] outcome \in {"threw", "rejected"} -> "rejected"

\* flush() calling fetch without awaiting it
settle_eager(outcome) == "fulfilled"

\* flush(), lines 279-290: what the promise of flush() becomes when the
\* awaited fetch ends with `outcome` (try/catch swallows a throw and a rejection)
settle(outcome) ==
    CASE outcome = "pending" -> "pending"
      [] outcome \in {"ok", "notok"} -> "fulfilled"
      [] outcome \in {"threw", "rejected"} -> "fulfilled"

\* a catch block that puts the failed batch back into the buffer
afterFailure_requeue(buf, items) == items \o buf

\* flush(), lines 288-290: the buffer after the catch block ran for a batch
\* whose fetch threw or rejected (the block is empty)
afterFailure(buf, items) == buf

\* flush(): the synchronous part, up to the await of fetch.
\* trigger says who called: "manual", "size" or "timer";
\* fetchThrows: fetch throws synchronously instead of returning a promise
flush(s, trigger, t, fetchThrows) ==
    LET s1 == cancelDeadline(s)
    IN  IF nothingToSend(s1.buffer)
        THEN [s1 EXCEPT !.calls = Append(@, [trigger |-> trigger, batch |-> 0,
                                             promise |-> "fulfilled"])]
        ELSE LET metricsToSend == s1.buffer
                 envelope == buildEnvelope(s1.dsn, metricsToSend, t)
                 outcome == IF fetchThrows THEN "threw" ELSE "pending"
             IN  [s1 EXCEPT
                    !.buffer = IF fetchThrows
                               THEN afterFailure(bufferAfterSnapshot(s1.buffer), metricsToSend)
                               ELSE bufferAfterSnapshot(s1.buffer),
                    !.sent = Append(@, [items |-> metricsToSend, trigger |-> trigger,
                                        at |-> t, returned |-> s1.recorded,
                                        url |-> s1.envelopeUrl, body |-> envelope,
                                        outcome |-> outcome]),
                    !.calls = Append(@, [trigger |-> trigger, batch |-> Len(s1.sent) + 1,
                                         promise |-> settle(outcome)])]

\* createMetric() adding the metric at the front (unshift)
push_front(buf, metric) == <<metric>> \o buf

\* createMetric(), line 257: buffer.push(metric)
push(buf, metric) == Append(buf, metric)

\* the size trigger with > for >=
sizeTrigger_gt(len) == len > BUFFER_SIZE_LIMIT

\* createMetric(), line 259: the size trigger
sizeTrigger(len) == len >= BUFFER_SIZE_LIMIT

\* createMetric(name, value, type, options), called at time t. The metric
\* carries the ordinal of its recording call (id), the time of the call (at)
\* and the closure that was called (by);
\* s.recorded counts the recording calls that have returned
createMetric(s, type, t, fetchThrows) ==
    LET metric == [id |-> s.recorded + 1, type |-> type, at |-> t, by |-> s.self]
        s1 == [s EXCEPT !.buffer = push(@, metric)]
        s2 == IF sizeTrigger(Len(s1.buffer))
              THEN flush(s1, "size", t, fetchThrows)
              ELSE scheduleFlush(s1, t)
    IN  [s2 EXCEPT !.recorded = @ + 1,
                   !.returns = @ \cup {<<Len(s1.buffer), Len(s2.buffer)>>}]

\* n >= 1 recording calls of one kind made in a row by the caller (the first
\* half of the calls, then the rest)
RECURSIVE recordRun(_, _, _, _, _)
recordRun(s, type, t, fetchThrows, n) ==
    IF n = 1 THEN createMetric(s, type, t, fetchThrows)
    ELSE LET h == n \div 2
             s1 == recordRun(s, type, t, fetchThrows, h)
         IN  IF s1.recorded >= 0
             THEN recordRun(s1, type, t, fetchThrows, n - h)
             ELSE s1

Install(s) ==
    /\ buffer' = s.buffer
    /\ flushTimer' = s.flushTimer
    /\ armed' = s.armed
    /\ nextTimer' = s.nextTimer
    /\ sent' = s.sent
    /\ calls' = s.calls
    /\ recorded' = s.recorded

\* ---- actions -------------------------------------------------------------
\* one scheduler, constructed from VALID_DSN, that has done nothing yet
Fresh ==
    /\ buffer = <<>>
    /\ flushTimer = NoTimer
    /\ armed = {}
    /\ nextTimer = 1
    /\ now = 0
    /\ sent = <<>>
    /\ calls = <<>>
    /\ recorded = 0
    /\ steps = 0
    /\ returns = {}

Init ==
    /\ Fresh
    /\ call = NoCall
    /\ payload = NoPayload
    /\ insts = [i \in Instances |-> NoInstance]

\* a run of n recording calls of one kind; a run longer than one call ends
\* at the latest with the call that reaches the size threshold
Record(type, n, fetchThrows) ==
    /\ steps < MaxSteps
    /\ n = 1 \/ Len(buffer) + n <= BUFFER_SIZE_LIMIT
    /\ LET s == recordRun(Closure, type, now, fetchThrows, n)
       IN  /\ Install(s)
           /\ returns' = s.returns
    /\ steps' = steps + 1
    /\ UNCHANGED <<now, aside>>

count ==
    \E n \in {1, BurstLen}, fetchThrows \in BOOLEAN :
        /\ sizeTrigger(Len(buffer) + n) \/ ~fetchThrows
        /\ Record("counter", n, fetchThrows)

gauge ==
    \E fetchThrows \in BOOLEAN :
        /\ sizeTrigger(Len(buffer) + 1) \/ ~fetchThrows
        /\ Record("gauge", 1, fetchThrows)

distribution ==
    \E fetchThrows \in BOOLEAN :
        /\ sizeTrigger(Len(buffer) + 1) \/ ~fetchThrows
        /\ Record("distribution", 1, fetchThrows)

\* metrics.flush() called by the application
Flush ==
    \E fetchThrows \in BOOLEAN :
        /\ steps < MaxSteps
        /\ buffer # <<>> \/ ~fetchThrows
        /\ Install(flush(Closure, "manual", now, fetchThrows))
        /\ steps' = steps + 1
        /\ returns' = {}
        /\ UNCHANGED <<now, aside>>

\* an armed timeout is due: the host disarms it and runs its callback
TimerFires ==
    \E tm \in armed, fetchThrows \in BOOLEAN :
        /\ tm.due <= now
        /\ buffer # <<>> \/ ~fetchThrows
        /\ Install(flush([Closure EXCEPT !.armed = @ \ {tm}], "timer", now, fetchThrows))
        /\ returns' = {}
        /\ UNCHANGED <<now, steps, aside>>

\* the promise of a fetch call settles; the flush() awaiting it resumes
FetchSettles(i, outcome) ==
    /\ sent[i].outcome = "pending"
    /\ sent' = [sent EXCEPT ![i].outcome = outcome]
    /\ calls' = [c \in 1..Len(calls) |->
                    IF calls[c].batch = i
                    THEN [calls[c] EXCEPT !.promise = settle(outcome)]
                    ELSE calls[c]]
    /\ buffer' = IF outcome = "rejected" THEN afterFailure(buffer, sent[i].items) ELSE buffer
    /\ returns' = {}
    /\ UNCHANGED <<flushTimer, armed, nextTimer, now, recorded, steps, aside>>

FetchResolves == \E i \in 1..Len(sent), outcome \in {"ok", "notok"} : FetchSettles(i, outcome)
FetchRejects == \E i \in 1..Len(sent) : FetchSettles(i, "rejected")

\* time passes, no armed timeout becoming overdue
Tick ==
    /\ steps < MaxSteps
    /\ \A tm \in armed : now < tm.due
    /\ LET dues == {tm.due : tm \in armed} \cup {now + TickMs}
           next == CHOOSE d \in dues : \A e \in dues : d <= e
       IN  now' = next
    /\ steps' = steps + 1
    /\ returns' = {}
    /\ UNCHANGED <<buffer, flushTimer, armed, nextTimer, sent, calls, recorded, aside>>

\* time passes although a timeout is due: the host runs the callback late
TickLate ==
    /\ steps < MaxSteps
    /\ \E tm \in armed : tm.due <= now
    /\ now' = now + TickMs
    /\ steps' = steps + 1
    /\ returns' = {}
    /\ UNCHANGED <<buffer, flushTimer, armed, nextTimer, sent, calls, recorded, aside>>

\* ---- several createMetrics calls -------------------------------------------
\* the addresses tried: what new URL(dsn) yields, or no URL at all (it throws)
DsnInputs ==
    {[valid |-> FALSE, username |-> "", host |-> "", pathname |-> <<>>]}
    \cup [valid : {TRUE}, username : {"", "abc123"},
          host : {"", "o1.ingest.sentry.io", "o2.ingest.sentry.io"},
          pathname : {<<>>, <<"/">>, <<"/", "4567890">>}]

\* what a createMetrics call or a parseDSN call ends with when it throws
Threw(dsn) == [status |-> "threw", dsn |-> dsn]

\* parseDSN without the check of the project id
parseDSN_anyPath(url) ==
    IF url.username = "" \/ url.host = ""
    THEN Threw(url)
    ELSE [status |-> "ok", publicKey |-> url.username, host |-> url.host,
          projectId |-> slice1(url.pathname)]

\* parseDSN(dsn), after new URL(dsn)
parseDSN(url) ==
    LET publicKey == url.username
        host == url.host
        projectId == slice1(url.pathname)
    IN  IF publicKey = "" \/ host = "" \/ projectId = <<>>
        THEN Threw(url)
        ELSE [status |-> "ok", publicKey |-> publicKey, host |-> host, projectId |-> projectId]

\* createMetrics(dsn): throws, or returns the operations of a new closure
createMetrics(dsn) ==
    IF ~dsn.valid THEN Threw(dsn)
    ELSE LET parsed == parseDSN(dsn)
         IN  IF parsed.status = "threw" THEN Threw(dsn)
             ELSE [status |-> "ok", dsn |-> dsn, publicKey |-> parsed.publicKey,
                   envelopeUrl |-> envelopeUrlOf(parsed.host, parsed.projectId),
                   buffer |-> <<>>, flushTimer |-> NoTimer, calls |-> <<>>]

\* the closure i sharing the module-level timer of closure 1
ClosureOf_sharedTimer(i) ==
    [buffer |-> insts[i].buffer,
     flushTimer |-> IF insts[1].status = "ok" THEN insts[1].flushTimer ELSE insts[i].flushTimer,
     armed |-> armed, nextTimer |-> nextTimer, sent |-> sent, calls |-> insts[i].calls,
     recorded |-> recorded, returns |-> {}, dsn |-> insts[i].dsn,
     envelopeUrl |-> insts[i].envelopeUrl, self |-> i]

\* the state the functions of closure i work on: its own buffer and
\* flushTimer, the timers and the fetch of the host
ClosureOf(i) ==
    [buffer |-> insts[i].buffer, flushTimer |-> insts[i].flushTimer,
     armed |-> armed, nextTimer |-> nextTimer, sent |-> sent, calls |-> insts[i].calls,
     recorded |-> recorded, returns |-> {}, dsn |-> insts[i].dsn,
     envelopeUrl |-> insts[i].envelopeUrl, self |-> i]

InstallOn(i, s) ==
    /\ insts' = [insts EXCEPT ![i].buffer = s.buffer, ![i].flushTimer = s.flushTimer,
                              ![i].calls = s.calls]
    /\ armed' = s.armed
    /\ nextTimer' = s.nextTimer
    /\ sent' = s.sent
    /\ recorded' = s.recorded

\* the scheduler variables of Spec that SpecMulti leaves alone
single == <<buffer, flushTimer, calls, returns, call, payload>>

InitMulti ==
    /\ Fresh
    /\ call = NoCall
    /\ payload = NoPayload
    /\ insts = [i \in Instances |-> NoInstance]

\* createMetrics(dsn) is called for the i-th time
CreateMetrics(i) ==
    \E dsn \in DsnInputs :
        /\ insts[i].status = "none"
        /\ \A j \in Instances : j < i => insts[j].status # "none"
        /\ insts' = [insts EXCEPT ![i] = createMetrics(dsn)]
        /\ UNCHANGED <<armed, nextTimer, now, sent, recorded, steps, single>>

\* count(name) on closure i
CountOn(i) ==
    /\ insts[i].status = "ok"
    /\ steps < MaxSteps
    /\ InstallOn(i, createMetric(ClosureOf(i), "counter", now, FALSE))
    /\ steps' = steps + 1
    /\ UNCHANGED <<now, single>>

\* flush() on closure i
FlushOn(i) ==
    /\ insts[i].status = "ok"
    /\ steps < MaxSteps
    /\ InstallOn(i, flush(ClosureOf(i), "manual", now, FALSE))
    /\ steps' = steps + 1
    /\ UNCHANGED <<now, single>>

\* an armed timeout is due: the host disarms it and runs the callback of its closure
TimerFiresOn(i) ==
    \E tm \in armed :
        /\ tm.cb = i
        /\ tm.due <= now
        /\ InstallOn(i, flush([ClosureOf(i) EXCEPT !.armed = @ \ {tm}], "timer", now, FALSE))
        /\ UNCHANGED <<now, steps, single>>

\* the promise of a fetch call settles; the flush() awaiting it resumes
FetchSettlesOn(b, outcome) ==
    /\ sent[b].outcome = "pending"
    /\ sent' = [sent EXCEPT ![b].outcome = outcome]
    /\ insts' = [i \in Instances |->
                    IF insts[i].status = "ok"
                    THEN [insts[i] EXCEPT
                            !.calls = [c \in 1..Len(@) |->
                                          IF @[c].batch = b
                                          THEN [@[c] EXCEPT !.promise = settle(outcome)]
                                          ELSE @[c]],
                            !.buffer = IF outcome = "rejected" /\ sent[b].items[1].by = i
                                       THEN afterFailure(@, sent[b].items) ELSE @]
                    ELSE insts[i]]
    /\ UNCHANGED <<armed, nextTimer, now, recorded, steps, single>>

NextMulti ==
    \/ \E i \in Instances : CreateMetrics(i)
    \/ \E i \in Instances : CountOn(i)
    \/ \E i \in Instances : FlushOn(i)
    \/ \E i \in Instances : TimerFiresOn(i)
    \/ \E b \in DOMAIN sent, outcome \in {"ok", "rejected"} : FetchSettlesOn(b, outcome)
    \/ Tick
    \/ TickLate

SpecMulti == InitMulti /\ [][NextMulti]_vars

\* ---- one recording call, argument by argument --------------------------------
Units == {Absent, Some(""), Some("millisecond")}
AttributeValues ==
    {Str("/users"), Str(""), Bool(TRUE), Bool(FALSE), Num(Finite(42, 0)), Num(Finite(0, 0)),
     Num(Finite(-3, 0)), Num(Finite(187, 500)), Num(NaN), Num(Infinity)}
AttributeMaps ==
    {Absent, Some([k \in {} |-> Str("")]),
     Some([route |-> Str("/users"), amount |-> Num(Finite(187, 500))])}
    \cup {Some([tag |-> v]) : v \in AttributeValues}
OptionsArgs ==
    {Absent} \cup {Some([unit |-> u, attributes |-> a]) : u \in Units, a \in AttributeMaps}
ValueArgs(api) ==
    {Some(Finite(5, 0)), Some(Finite(125, 500))} \cup (IF api = "count" THEN {Absent} ELSE {})
Calls ==
    UNION {[api : {api}, name : {"api.requests", "queue.depth"}, value : ValueArgs(api),
            options : OptionsArgs, traceId : {"0123456789abcdef0123456789abcdef"}]
           : api \in {"count", "gauge", "distribution"}}

InitEncode ==
    /\ Fresh
    /\ call \in Calls
    /\ payload = NoPayload
    /\ insts = [i \in Instances |-> NoInstance]

\* count / gauge / distribution build the record of the call
Encode ==
    /\ payload = NoPayload
    /\ payload' = metricPayload(call.name, valueOrDefault(call.api, call.value),
                                typeOfApi(call.api), call.options, now, call.traceId)
    /\ UNCHANGED <<buffer, flushTimer, armed, nextTimer, now, sent, calls, recorded, steps,
                   returns, call, insts>>

SpecEncode == InitEncode /\ [][Encode]_vars

NextOnTime ==
    \/ count
    \/ gauge
    \/ distribution
    \/ Flush
    \/ TimerFires
    \/ FetchResolves
    \/ FetchRejects
    \/ Tick

Next == NextOnTime \/ TickLate

Spec == Init /\ [][Next]_vars
\* the host runs every timeout callback at its due time
SpecOnTime == Init /\ [][NextOnTime]_vars

\* ---- history ---------------------------------------------------------------
\* the metrics handed to fetch so far, batch after batch
RECURSIVE handedUpTo(_)
handedUpTo(i) == IF i = 0 THEN <<>> ELSE handedUpTo(i - 1) \o sent[i].items
HandedOver == handedUpTo(Len(sent))

\* every metric recorded so far that is in a batch or in the buffer
AllMetrics == HandedOver \o buffer

\* the number of metrics in the batches 1..i
RECURSIVE sizeUpTo(_)
sizeUpTo(i) == IF i = 0 THEN 0 ELSE sizeUpTo(i - 1) + Len(sent[i].items)
\* the ordinals of recording calls after which a batch was cut
Boundaries == {sizeUpTo(i) : i \in 0..Len(sent)}

Ids(seq) == {seq[i].id : i \in DOMAIN seq}
LastCall == calls[Len(calls)]

\* ---- claims ----------------------------------------------------------------
\* C1: every recorded event is in at most one batch handed to fetch, and at
\* every moment it is either still in the buffer or in exactly one batch.
C1_ExactlyOnce ==
    /\ Len(AllMetrics) = recorded
    /\ Ids(AllMetrics) = 1..recorded
C1_Witness ==
    /\ \E i \in DOMAIN sent : sent[i].trigger = "size" /\ sent[i].outcome = "rejected"
    /\ buffer # <<>>

\* C2: when a recording call returns the buffer holds at most BUFFER_SIZE_LIMIT
\* metrics; a call whose push made the length reach the limit returns with the
\* buffer drained.
C2_BelowLimitAtReturn ==
    /\ Len(buffer) <= BUFFER_SIZE_LIMIT
    /\ \A r \in returns :
        /\ r[2] <= BUFFER_SIZE_LIMIT
        /\ r[1] >= BUFFER_SIZE_LIMIT => r[2] = 0
C2_Witness == <<BUFFER_SIZE_LIMIT, 0>> \in returns

\* C3: BUFFER_SIZE_LIMIT recording calls from an empty buffer with no drain in
\* between make exactly one fetch call, initiated inside the last of those
\* calls (after the one before it returned), carrying exactly their metrics.
C3_SizeTriggerSendsTheHundred ==
    \A k \in Boundaries :
        (/\ k + BUFFER_SIZE_LIMIT <= recorded
         /\ \A j \in Boundaries : ~(k < j /\ j < k + BUFFER_SIZE_LIMIT))
        => /\ \E i \in DOMAIN sent :
                /\ Len(sent[i].items) = BUFFER_SIZE_LIMIT
                /\ Ids(sent[i].items) = (k + 1)..(k + BUFFER_SIZE_LIMIT)
                /\ sent[i].returned = k + BUFFER_SIZE_LIMIT - 1
           /\ Cardinality({i \in DOMAIN sent :
                  Ids(sent[i].items) \cap ((k + 1)..(k + BUFFER_SIZE_LIMIT)) # {}}) = 1
C3_Witness ==
    /\ Len(sent) = 1
    /\ sent[1].trigger = "size"
    /\ recorded = BUFFER_SIZE_LIMIT
    /\ calls = <<[trigger |-> "size", batch |-> 1, promise |-> "pending"]>>

\* C4: a batch of fewer than BUFFER_SIZE_LIMIT metrics is handed to fetch only
\* by a manual flush() or at least FLUSH_INTERVAL_MS after the first of its
\* recording calls.
C4_NoEarlySend ==
    \A i \in DOMAIN sent :
        Len(sent[i].items) < BUFFER_SIZE_LIMIT
        => \/ sent[i].trigger = "manual"
           \/ sent[i].at >= sent[i].items[1].at + FLUSH_INTERVAL_MS
C4_Witness ==
    \E i \in DOMAIN sent :
        /\ sent[i].trigger = "timer"
        /\ Len(sent[i].items) < BUFFER_SIZE_LIMIT
        /\ sent[i].at = sent[i].items[1].at + FLUSH_INTERVAL_MS

\* C5: with timeouts run on time, every metric is handed to fetch at most
\* FLUSH_INTERVAL_MS after its recording call: while metrics are buffered a
\* deadline is armed for FLUSH_INTERVAL_MS after the first of them, whatever
\* was recorded since.
C5_HandedOverInTime ==
    /\ \A i \in DOMAIN buffer : now <= buffer[i].at + FLUSH_INTERVAL_MS
    /\ \A b \in DOMAIN sent : \A i \in DOMAIN sent[b].items :
          sent[b].at <= sent[b].items[i].at + FLUSH_INTERVAL_MS
    /\ buffer # <<>> =>
          \E tm \in armed : tm.id = flushTimer /\ tm.due = buffer[1].at + FLUSH_INTERVAL_MS
C5_Witness ==
    \E b \in DOMAIN sent :
        /\ sent[b].trigger = "timer"
        /\ sent[b].at = sent[b].items[1].at + FLUSH_INTERVAL_MS
        /\ \E i \in DOMAIN sent[b].items : sent[b].items[i].at > sent[b].items[1].at

\* C6: whatever fetch does, no promise returned by flush() rejects (so no drain
\* started by a recording call or a timeout leaves an unhandled rejection), and
\* the promise is fulfilled once the fetch has ended.
C6_NeverRejects ==
    \A c \in DOMAIN calls :
        /\ calls[c].promise # "rejected"
        /\ calls[c].batch = 0 => calls[c].promise = "fulfilled"
        /\ (calls[c].batch # 0 /\ sent[calls[c].batch].outcome # "pending")
              => calls[c].promise = "fulfilled"
C6_Witness ==
    /\ \E c \in DOMAIN calls :
          /\ calls[c].trigger = "size"
          /\ sent[calls[c].batch].outcome = "threw"
          /\ calls[c].promise = "fulfilled"
    /\ \E c \in DOMAIN calls :
          /\ calls[c].trigger = "manual"
          /\ calls[c].batch # 0
          /\ sent[calls[c].batch].outcome = "rejected"
          /\ calls[c].promise = "fulfilled"

\* C7: flush() on an empty buffer calls fetch not at all and leaves the buffer
\* empty; every batch handed to fetch holds at least one metric.
IsManualFlushStep ==
    /\ Len(calls') = Len(calls) + 1
    /\ calls'[Len(calls')].trigger = "manual"
C7_EmptyFlushSendsNothing ==
    /\ [](\A i \in DOMAIN sent : Len(sent[i].items) >= 1)
    /\ [][(IsManualFlushStep /\ buffer = <<>>) => (sent' = sent /\ buffer' = <<>>)]_vars
C7_Witness ==
    /\ Len(calls) = 2
    /\ calls[1] = [trigger |-> "manual", batch |-> 1, promise |-> "pending"]
    /\ calls[2] = [trigger |-> "manual", batch |-> 0, promise |-> "fulfilled"]
    /\ Len(sent) = 1

\* C8: right after the synchronous part of any flush (manual, size-triggered or
\* deadline-triggered, the buffer empty or not) the buffer is empty and no
\* deadline is pending.
C8_FlushLeavesIdle ==
    [][Len(calls') > Len(calls)
         => (buffer' = <<>> /\ flushTimer' = NoTimer /\ armed' = {})]_vars
C8_Witness ==
    /\ Len(calls) >= 2
    /\ \E c \in DOMAIN calls : calls[c].trigger = "timer" /\ calls[c].batch # 0
    /\ LastCall.trigger = "manual" /\ LastCall.batch = 0
    /\ buffer = <<>> /\ flushTimer = NoTimer /\ armed = {}

\* C9: at most one timeout is armed, and it is the one flushTimer refers to.
C9_OneDeadline ==
    /\ Cardinality(armed) <= 1
    /\ \A tm \in armed : tm.id = flushTimer
C9_Witness ==
    /\ Len(calls) >= 1
    /\ Len(buffer) >= 2
    /\ Cardinality(armed) = 1
    /\ nextTimer = 3

\* C10: the batches, in the order they were handed to fetch, followed by the
\* buffer list the metrics in the order of their recording calls.
C10_Fifo ==
    \A i \in DOMAIN AllMetrics : AllMetrics[i].id = i
C10_Witness ==
    /\ Len(sent) >= 2
    /\ Len(sent[1].items) >= 2
    /\ sent[2].trigger = "manual"

\* C11: a failed transport attempt (a throw, a rejection or a non-success
\* response) drops its batch: the step in which it fails changes neither the
\* buffer nor the deadline nor the fetch calls made, and the metrics of a failed
\* batch are neither in the buffer nor in another batch.
Failed(b) == sent[b].outcome \in {"threw", "rejected", "notok"}
C11_FailedBatchDropped ==
    /\ [](\A b \in DOMAIN sent : Failed(b) =>
            /\ Ids(sent[b].items) \cap Ids(buffer) = {}
            /\ \A c \in DOMAIN sent : c # b => Ids(sent[b].items) \cap Ids(sent[c].items) = {})
    /\ [][(\E b \in DOMAIN sent :
              sent[b].outcome = "pending" /\ sent'[b].outcome \in {"rejected", "notok"})
          => /\ buffer' = buffer
             /\ flushTimer' = flushTimer
             /\ armed' = armed
             /\ Len(sent') = Len(sent)
             /\ \A b \in DOMAIN sent : sent'[b].items = sent[b].items]_vars
C11_Witness ==
    /\ Len(sent) >= 2
    /\ sent[1].outcome = "rejected"
    /\ Len(calls) >= 2
    /\ buffer = <<>>

\* C13: every payload handed to fetch splits at its newlines into exactly
\* three segments, envelope header, item header and item body in this order;
\* the item header's count is the number of records of the item body, which are
\* the drained snapshot, 1 to BUFFER_SIZE_LIMIT of them.
RECURSIVE splitAtNewlines(_)
splitAtNewlines(text) ==
    IF text = <<>> THEN <<<<>>>>
    ELSE LET rest == splitAtNewlines(Tail(text))
         IN  IF Head(text) = Newline THEN <<<<>>>> \o rest
             ELSE <<<<Head(text)>> \o rest[1]>> \o Tail(rest)
IsText(seg, fields) == Len(seg) = 1 /\ DOMAIN seg[1].json = fields
C13_ThreeSegments ==
    \A b \in DOMAIN sent :
        LET seg == splitAtNewlines(sent[b].body)
        IN  /\ Len(seg) = 3
            /\ IsText(seg[1], {"dsn", "sent_at"})
            /\ IsText(seg[2], {"type", "item_count", "content_type"})
            /\ IsText(seg[3], {"items"})
            /\ seg[2][1].json.type = "trace_metric"
            /\ seg[2][1].json.item_count = Len(seg[3][1].json.items)
            /\ seg[3][1].json.items = sent[b].items
            /\ Len(sent[b].items) \in 1..BUFFER_SIZE_LIMIT
C13_Witness ==
    /\ \E b \in DOMAIN sent : Len(sent[b].items) = 1
    /\ \E b \in DOMAIN sent : Len(sent[b].items) = BUFFER_SIZE_LIMIT

\* C15: the promise of a flush() that drained a batch is pending exactly as
\* long as the fetch call of that batch is; a fetch that never settles leaves
\* it pending for ever.
C15_ResolvesWithItsFetch ==
    \A c \in DOMAIN calls :
        calls[c].batch # 0 =>
            /\ calls[c].promise \in {"pending", "fulfilled"}
            /\ calls[c].promise = "pending" <=> sent[calls[c].batch].outcome = "pending"
C15_Witness ==
    /\ Len(calls) = 2
    /\ calls[1].trigger = "manual" /\ calls[1].batch = 1 /\ calls[1].promise = "fulfilled"
    /\ sent[1].outcome = "notok"
    /\ calls[2].trigger = "manual" /\ calls[2].batch = 2 /\ calls[2].promise = "pending"
    /\ sent[2].outcome = "pending"

\* C16: between operations the scheduler is Idle (buffer empty, no deadline) or
\* Accumulating (buffer non-empty, its deadline armed), nothing else.
Idle == buffer = <<>> /\ flushTimer = NoTimer /\ armed = {}
Accumulating == buffer # <<>> /\ flushTimer # NoTimer /\ \E tm \in armed : tm.id = flushTimer
C16_IdleOrAccumulating == Idle \/ Accumulating
C16_Witness ==
    /\ Accumulating
    /\ \E c \in DOMAIN calls : calls[c].trigger = "timer"
    /\ Len(sent) >= 1

\* C17: a recording call made while fetch calls are in flight leaves every
\* fetch call made so far as it is; its metric ends the buffer, which holds
\* nothing of an earlier batch and has its deadline armed, or it ends a new
\* batch drained by the size trigger.
C17_RecordingDuringFlight ==
    [][recorded' > recorded =>
        /\ \A b \in DOMAIN sent : sent'[b] = sent[b]
        /\ \A b \in DOMAIN sent : Ids(sent[b].items) \cap Ids(buffer') = {}
        /\ \/ /\ buffer' # <<>>
              /\ buffer'[Len(buffer')].id = recorded'
              /\ Len(sent') = Len(sent)
              /\ flushTimer' # NoTimer
              /\ \E tm \in armed' : tm.id = flushTimer'
           \/ /\ buffer' = <<>>
              /\ Len(sent') = Len(sent) + 1
              /\ sent'[Len(sent')].trigger = "size"
              /\ sent'[Len(sent')].items[BUFFER_SIZE_LIMIT].id = recorded']_vars
C17_Witness ==
    /\ Len(sent) = 2
    /\ sent[1].outcome = "pending"
    /\ sent[2].trigger = "size"
    /\ sent[2].outcome = "pending"

\* C18 as claimed: once the promise of a manual flush() is fulfilled, no fetch
\* call of that or an earlier drain is pending.
C18_NothingInFlight ==
    \A c \in DOMAIN calls :
        (calls[c].trigger = "manual" /\ calls[c].promise = "fulfilled")
        => \A d \in 1..c : calls[d].batch # 0 => sent[calls[d].batch].outcome # "pending"
\* C18 amended: a manual flush() that finds metrics buffered drains all that
\* were recorded and not drained before, and once its promise is fulfilled the
\* fetch call of that batch has ended.
C18_OwnBatchEnded ==
    \A c \in DOMAIN calls :
        (calls[c].trigger = "manual" /\ calls[c].batch # 0)
        => /\ sizeUpTo(calls[c].batch) = sent[calls[c].batch].returned
           /\ calls[c].promise = "fulfilled" => sent[calls[c].batch].outcome # "pending"
C18_Witness ==
    \E c \in DOMAIN calls :
        /\ calls[c].trigger = "manual" /\ calls[c].batch = 2
        /\ calls[c].promise = "fulfilled"
        /\ sent[2].outcome = "ok"
        /\ sent[1].outcome = "pending"

\* C14: every tag value of a recording call is carried unchanged with its
\* kind: string for a string, boolean for a boolean, integer for a number
\* without fractional part, double for any other number.
KindOf(value) ==
    CASE value.t = "string" -> "string"
      [] value.t = "boolean" -> "boolean"
      [] value.t = "number" /\ value.num.kind = "finite" /\ value.num.frac = 0 -> "integer"
      [] OTHER -> "double"
C14_TagKinds ==
    (payload # NoPayload /\ attributesOf(call.options).some) =>
        LET tags == attributesOf(call.options).v
        IN  /\ "attributes" \in DOMAIN payload
            /\ DOMAIN payload.attributes = DOMAIN tags
            /\ \A k \in DOMAIN tags :
                  /\ payload.attributes[k].value = tags[k]
                  /\ payload.attributes[k].type = KindOf(tags[k])
                  /\ payload.attributes[k].type \in {"string", "integer", "double", "boolean"}
C14_Witness ==
    /\ payload # NoPayload
    /\ "attributes" \in DOMAIN payload
    /\ DOMAIN payload.attributes = {"route", "amount"}
    /\ payload.attributes.route.type = "string"
    /\ payload.attributes.amount.type = "double"

\* C20: the record has a unit field exactly when the caller supplied a unit,
\* with the supplied value, and a tags field exactly when the caller supplied at
\* least one tag; name, value and kind are those of the call.
C20_OptionalFields ==
    payload # NoPayload =>
        LET unit == unitOf(call.options)
            tags == attributesOf(call.options)
        IN  /\ "unit" \in DOMAIN payload <=> unit.some
            /\ "unit" \in DOMAIN payload => payload.unit = unit.v
            /\ "attributes" \in DOMAIN payload <=> (tags.some /\ DOMAIN tags.v # {})
            /\ payload.name = call.name
            /\ payload.value = valueOrDefault(call.api, call.value)
            /\ payload.type = typeOfApi(call.api)

\* ---- claims about createMetrics and several closures ------------------------
\* the address lacks a credential, a host or a resource path segment
Lacks(dsn) == ~dsn.valid \/ dsn.username = "" \/ dsn.host = "" \/ Len(dsn.pathname) <= 1

\* the metrics closure i has recorded that are in batches handed to fetch
SentBy(i) == {b \in DOMAIN sent : \E k \in DOMAIN sent[b].items : sent[b].items[k].by = i}

\* C12: createMetrics with an address lacking a credential, a host or a path
\* segment throws, and for that call there is no buffer, no deadline and never a
\* timeout or a fetch call; with all three components it returns a closure
\* whose buffer is empty and whose deadline is unset, and arms and sends nothing.
C12_ConstructionFailsOrStartsIdle ==
    /\ [](\A i \in Instances : insts[i].status # "none" =>
            /\ Lacks(insts[i].dsn) <=> insts[i].status = "threw"
            /\ ~Lacks(insts[i].dsn) <=> insts[i].status = "ok"
            /\ insts[i].status = "threw" =>
                  /\ DOMAIN insts[i] = {"status", "dsn"}
                  /\ \A tm \in armed : tm.cb # i
                  /\ SentBy(i) = {})
    /\ [][\A i \in Instances :
            (insts[i].status = "none" /\ insts'[i].status = "ok") =>
                /\ insts'[i].buffer = <<>>
                /\ insts'[i].flushTimer = NoTimer
                /\ insts'[i].envelopeUrl =
                      envelopeUrlOf(insts'[i].dsn.host, Tail(insts'[i].dsn.pathname))
                /\ armed' = armed
                /\ sent' = sent]_vars
C12_Witness ==
    /\ insts[1].status = "threw"
    /\ insts[1].dsn.valid
    /\ insts[1].dsn.username # ""
    /\ insts[1].dsn.host # ""
    /\ insts[2].status = "ok"
    /\ SentBy(2) # {}
    /\ insts[2].buffer # <<>>

\* the timeouts armed with the callback of closure i
TimersOf(i) == {tm \in armed : tm.cb = i}

\* C19: a step that changes one closure (a recording call, flush(), its timeout
\* firing, its fetch settling) leaves the buffer and the pending deadline of the
\* other closure as they were, and every batch goes to the envelope URL of the
\* closure that recorded its metrics, all of them recorded by that one closure.
C19_NoInterference ==
    /\ [](\A b \in DOMAIN sent : \A k \in DOMAIN sent[b].items :
            /\ insts[sent[b].items[k].by].status = "ok"
            /\ sent[b].url = insts[sent[b].items[k].by].envelopeUrl
            /\ sent[b].items[k].by = sent[b].items[1].by)
    /\ [](\A i \in Instances : insts[i].status = "ok" =>
            /\ \A k \in DOMAIN insts[i].buffer : insts[i].buffer[k].by = i
            /\ TimersOf(i) = {tm \in armed : tm.id = insts[i].flushTimer})
    /\ [][\A i, j \in Instances :
            (i # j /\ insts'[i] # insts[i]) =>
                /\ insts'[j] = insts[j]
                /\ TimersOf(j) \subseteq armed'
                /\ \A tm \in armed' : tm.cb = j => tm \in armed]_vars
C19_Witness ==
    /\ insts[1].status = "ok"
    /\ insts[2].status = "ok"
    /\ insts[1].envelopeUrl # insts[2].envelopeUrl
    /\ SentBy(1) # {}
    /\ insts[1].buffer = <<>>
    /\ insts[2].buffer # <<>>
    /\ TimersOf(2) # {}
====
